---------------------------- MODULE Spec2Model ----------------------------
(***************************************************************************)
(* A model of yomi-merge (src/main.py): the indexing of the two source     *)
(* dictionaries, the Dict2-driven merge, the redirect carry-over, the      *)
(* integrity check and the order of the steps of main(), together with the *)
(* text normalization applied to Dict2's definitions.                      *)
(*                                                                         *)
(* A Python str is a sequence of one-character strings.  A term entry is   *)
(* the 8-tuple of the wire format; Python's entry[k] is Field(e, k).       *)
(* A JSON value whose shape the code inspects (field 5) is a record        *)
(* [t, s, l]: t its type, s the characters of a string, l the items of a   *)
(* list.                                                                   *)
(***************************************************************************)
EXTENDS Integers, Sequences, FiniteSets, TLC

VARIABLES
    pc,                 \* the step of main() that runs next
    outdir,             \* names of the files in the output directory
    zipped,             \* whether <output>.zip has been written by this run
    args,               \* the parsed command line
    dict1,              \* the entries of Dict1's term banks, in file order
    dict2,              \* the entries of Dict2's term banks, in file order
    lemma_index,        \* index_dict1: term -> lemma entries
    nonlemma_index,     \* index_dict1: <<redirect, entries>> in insertion order
    nonlemma_by_term,   \* index_dict1: surface term -> last non-lemma entry
    lemma_of_term,      \* index_dict1: term -> lemma
    dict2_lemmas,       \* index_dict2: the terms of Dict2
    dict2_definitions,  \* index_dict2: term -> definitions
    merged_entries,     \* merge_entries_from_dict2's result
    nonlemma_redirects, \* collect_nonlemma_redirects' result
    all_entries,        \* the final list
    chunks,             \* list(chunk_entries(all_entries, chunk_size))
    error,              \* the error the run ended with, "" while there is none
    trace,              \* the steps of main() that have run, in order
    npc,                \* normalize_definitions: position
    nidx,               \* normalize_definitions: the number of items done
    nraw,               \* normalize_definitions: raw_definitions
    nterm,              \* normalize_definitions: term
    normalized          \* normalize_definitions: the list built so far

mainVars == <<pc, outdir, zipped, args, dict1, dict2, lemma_index,
              nonlemma_index, nonlemma_by_term, lemma_of_term, dict2_lemmas,
              dict2_definitions, merged_entries, nonlemma_redirects,
              all_entries, chunks, error, trace>>
normVars == <<npc, nidx, nraw, nterm, normalized>>
vars == <<mainVars, normVars>>

(***************************************************************************)
(* Text                                                                    *)
(***************************************************************************)

\* The characters the model uses, in code point order.
Alphabet ==
    << "\n", " ", "(", ")", ",", "-", ".", ":", ";", "L", "N",
       "a", "b", "c", "d", "e", "f", "g", "i", "l", "m", "n", "o", "p",
       "r", "s", "t", "u", "x", "y", "{", "}" >>

Chars == {Alphabet[i] : i \in DOMAIN Alphabet}

\* The rank of a character: its code point, up to an order isomorphism.
Ord == [c \in Chars |-> CHOOSE i \in DOMAIN Alphabet : Alphabet[i] = c]

\* str.__lt__: lexicographic by code point.
RECURSIVE StrLess(_, _)
StrLess(a, b) ==
    IF b = <<>> THEN FALSE
    ELSE IF a = <<>> THEN TRUE
    ELSE IF a[1] # b[1] THEN Ord[a[1]] < Ord[b[1]]
    ELSE StrLess(Tail(a), Tail(b))

StrLeq(a, b) == a = b \/ StrLess(a, b)

\* str.isspace for one character.
IsSpace(c) == c \in {" ", "\n"}

\* str.lower for one character and for a string.
LowerChar(c) == IF c = "L" THEN "l" ELSE IF c = "N" THEN "n" ELSE c
Lower(s) == [i \in DOMAIN s |-> LowerChar(s[i])]

\* s[n:]
Drop(s, n) == IF n >= Len(s) THEN <<>> ELSE SubSeq(s, n + 1, Len(s))

\* str.lstrip(chars) and str.rstrip(chars) for a set of characters.
RECURSIVE LStripChars(_, _)
LStripChars(s, cs) ==
    IF s # <<>> /\ s[1] \in cs THEN LStripChars(Tail(s), cs) ELSE s

RECURSIVE RStripChars(_, _)
RStripChars(s, cs) ==
    IF s # <<>> /\ s[Len(s)] \in cs
    THEN RStripChars(SubSeq(s, 1, Len(s) - 1), cs)
    ELSE s

\* str.strip()
Strip(s) == LStripChars(RStripChars(s, {" ", "\n"}), {" ", "\n"})

\* str.startswith
StartsWith(s, p) == Len(p) <= Len(s) /\ SubSeq(s, 1, Len(p)) = p

\* str.replace(old, new) for a non-empty old: leftmost, non-overlapping.
RECURSIVE Replace(_, _, _)
Replace(s, old, new) ==
    IF Len(s) < Len(old) THEN s
    ELSE IF StartsWith(s, old)
         THEN new \o Replace(Drop(s, Len(old)), old, new)
         ELSE <<s[1]>> \o Replace(Tail(s), old, new)

\* The index of the first position >= i of s that holds no whitespace
\* (Len(s) + 1 when there is none).
RECURSIVE SkipSpace(_, _)
SkipSpace(s, i) ==
    IF i <= Len(s) /\ IsSpace(s[i]) THEN SkipSpace(s, i + 1) ELSE i

\* The index of the first "}" at a position >= i of s (0 when there is none).
RECURSIVE FindClose(_, _)
FindClose(s, i) ==
    IF i > Len(s) THEN 0
    ELSE IF s[i] = "}" THEN i
    ELSE FindClose(s, i + 1)

\* BRACE_BLOCK_RE.match at position i: the index of the last character of
\* the match of \s*\{[^}]+\} that starts at i, 0 when there is no match.
BraceMatchEnd(s, i) ==
    LET j == SkipSpace(s, i)
        k == FindClose(s, j + 1)
    IN  IF j <= Len(s) /\ s[j] = "{" /\ k >= j + 2 THEN k ELSE 0

\* BRACE_BLOCK_RE.split(text): the text between the matches and, the
\* pattern being one capturing group, the matches, alternating.
RECURSIVE BraceSplitFrom(_, _, _)
BraceSplitFrom(s, start, i) ==
    IF i > Len(s) THEN << SubSeq(s, start, Len(s)) >>
    ELSE LET k == BraceMatchEnd(s, i)
         IN  IF k > 0
             THEN << SubSeq(s, start, i - 1), SubSeq(s, i, k) >>
                  \o BraceSplitFrom(s, k + 1, k + 1)
             ELSE BraceSplitFrom(s, start, i + 1)

BraceSplit(s) == BraceSplitFrom(s, 1, 1)

(***************************************************************************)
(* normalize_definitions                                                   *)
(***************************************************************************)

\* "Remove leading term repetition": lines 54-55.
StripTerm(text, term) ==
    IF StartsWith(Lower(text), Lower(term))
    THEN LStripChars(Drop(text, Len(term)), {" ", ".", ":", "-"})
    ELSE text

\* One iteration of the loop over parts (lines 66-78); st = <<rebuilt_lines,
\* current>>.
RebuildStep(st, part) ==
    IF part = <<>> THEN st
    ELSE IF StartsWith(part, <<"{">>)
    THEN << IF st[2] # <<>> THEN Append(st[1], Strip(st[2])) ELSE st[1],
            Strip(part) >>
    ELSE << st[1], IF st[2] # <<>> THEN st[2] \o part ELSE Strip(part) >>

RECURSIVE RebuildLoop(_, _)
RebuildLoop(st, parts) ==
    IF parts = <<>> THEN st
    ELSE RebuildLoop(RebuildStep(st, Head(parts)), Tail(parts))

\* Lines 61-81: the lines rebuilt from one text.
RebuildLines(text) ==
    LET st == RebuildLoop(<< <<>>, <<>> >>, BraceSplit(text))
    IN  IF st[2] # <<>> THEN Append(st[1], Strip(st[2])) ELSE st[1]

\* The body of the loop over raw_definitions for one item (lines 46-81).
NormalizeItem(item, term) ==
    RebuildLines(Replace(StripTerm(Strip(item), term),
                         <<",", " ", "(">>, <<"\n", "(">>))

\* normalize_definitions(raw_definitions, term)
RECURSIVE normalize_definitions(_, _)
normalize_definitions(raw_definitions, term) ==
    IF raw_definitions = <<>> THEN <<>>
    ELSE NormalizeItem(Head(raw_definitions), term)
         \o normalize_definitions(Tail(raw_definitions), term)


(***************************************************************************)
(* JSON values and term entries                                            *)
(***************************************************************************)

JStr(s) == [t |-> "str", s |-> s, l |-> <<>>]
JList(l) == [t |-> "list", s |-> <<>>, l |-> l]
JNull == [t |-> "null", s |-> <<>>, l |-> <<>>]

\* Python's x[0]: the first item of a list, the first character of a str;
\* IndexError on an empty one, TypeError on None.
Subscript0(x) ==
    IF x.t = "list" /\ x.l # <<>> THEN [ok |-> TRUE, v |-> x.l[1]]
    ELSE IF x.t = "str" /\ x.s # <<>> THEN [ok |-> TRUE, v |-> JStr(<<x.s[1]>>)]
    ELSE [ok |-> FALSE, v |-> JNull]

\* Python's truth value of x.
Truthy(x) == (x.t = "str" /\ x.s # <<>>) \/ (x.t = "list" /\ x.l # <<>>)

\* entry[k]
Field(entry, k) == entry[k + 1]

\* The entry with entry[5] replaced (new_entry = list(entry);
\* new_entry[5] = definitions).
WithDefinitions(entry, definitions) == [entry EXCEPT ![6] = definitions]

\* The check of iter_dict1_entries and iter_dict2_entries on one entry.
ValidShape(entry) == Len(entry) = 8

is_non_lemma(entry) == Field(entry, 2) = "non-lemma"

\* dict.get(key, default) and dict.setdefault(key, []).append(value) on a
\* dict held as a function.
Get(d, key, default) == IF key \in DOMAIN d THEN d[key] ELSE default

Put(d, key, value) ==
    [k \in DOMAIN d \cup {key} |-> IF k = key THEN value ELSE d[k]]

AppendTo(d, key, value) == Put(d, key, Append(Get(d, key, <<>>), value))

\* setdefault(key, []).append(value) on a dict held as the sequence of its
\* <<key, list>> items in insertion order.
RECURSIVE AppendToItems(_, _, _)
AppendToItems(items, key, value) ==
    IF items = <<>> THEN << <<key, <<value>> >> >>
    ELSE IF Head(items)[1] = key
         THEN << <<key, Append(Head(items)[2], value)>> >> \o Tail(items)
         ELSE << Head(items) >> \o AppendToItems(Tail(items), key, value)

(***************************************************************************)
(* index_dict1                                                             *)
(***************************************************************************)

EmptyDict == [k \in {} |-> <<>>]

\* entry[5][0][0] under "except Exception" (lines 270-273).
RedirectOf(entry) ==
    LET a == Subscript0(Field(entry, 5))
        b == IF a.ok THEN Subscript0(a.v) ELSE a
    IN  b

\* The body of the loop of index_dict1 for one entry (lines 266-283); ix is
\* the four indexes and the error raised so far.
IndexDict1Step(ix, entry) ==
    IF ix.error # "" THEN ix
    ELSE IF ~ValidShape(entry)
    THEN [ix EXCEPT !.error = "ValueError: Invalid term entry"]
    ELSE IF is_non_lemma(entry)
    THEN LET r == RedirectOf(entry)
         IN  IF ~r.ok
             THEN [ix EXCEPT !.error = "ValueError: Invalid non-lemma structure"]
             ELSE IF r.v.t = "list"
             THEN [ix EXCEPT !.error = "TypeError: unhashable type"]
             ELSE [ix EXCEPT
                     !.nonlemma_index = AppendToItems(@, r.v, entry),
                     !.nonlemma_by_term = Put(@, Field(entry, 0), entry),
                     !.lemma_of_term = Put(@, Field(entry, 0), r.v)]
    ELSE [ix EXCEPT
            !.lemma_index = AppendTo(@, Field(entry, 0), entry),
            !.lemma_of_term = Put(@, Field(entry, 0), JStr(Field(entry, 0)))]

RECURSIVE IndexDict1Loop(_, _)
IndexDict1Loop(ix, entries) ==
    IF entries = <<>> THEN ix
    ELSE IndexDict1Loop(IndexDict1Step(ix, Head(entries)), Tail(entries))

index_dict1(entries) ==
    IndexDict1Loop([lemma_index |-> EmptyDict, nonlemma_index |-> <<>>,
                    nonlemma_by_term |-> EmptyDict, lemma_of_term |-> EmptyDict,
                    error |-> ""], entries)

(***************************************************************************)
(* index_dict2                                                             *)
(***************************************************************************)

\* The strings of a JSON list of strings, and back.
Texts(j) == [i \in DOMAIN j.l |-> j.l[i].s]
JTexts(ts) == JList([i \in DOMAIN ts |-> JStr(ts[i])])

\* Lines 308-311.
Dict2Definitions(entry, normalize) ==
    IF normalize
    THEN normalize_definitions(Texts(Field(entry, 5)), Field(entry, 0))
    ELSE Texts(Field(entry, 5))

\* The body of the loop of index_dict2 for one entry (lines 305-318).
IndexDict2Step(ix, entry, normalize) ==
    IF ix.error # "" THEN ix
    ELSE IF ~ValidShape(entry)
    THEN [ix EXCEPT !.error = "ValueError: Invalid term entry"]
    ELSE LET term == Field(entry, 0)
             definitions == Dict2Definitions(entry, normalize)
         IN  IF term \in DOMAIN ix.dict2_definitions
             THEN [ix EXCEPT !.dict2_definitions[term] = @ \o definitions]
             ELSE [ix EXCEPT
                     !.dict2_lemmas = @ \cup {term},
                     !.dict2_definitions = Put(@, term, definitions)]

RECURSIVE IndexDict2Loop(_, _, _)
IndexDict2Loop(ix, entries, normalize) ==
    IF entries = <<>> THEN ix
    ELSE IndexDict2Loop(IndexDict2Step(ix, Head(entries), normalize),
                        Tail(entries), normalize)

index_dict2(entries, normalize) ==
    IndexDict2Loop([dict2_lemmas |-> {}, dict2_definitions |-> EmptyDict,
                    error |-> ""], entries, normalize)

(***************************************************************************)
(* merge_entries_from_dict2 and collect_nonlemma_redirects                 *)
(***************************************************************************)

\* sorted(terms)
RECURSIVE Sorted(_)
Sorted(terms) ==
    IF terms = {} THEN <<>>
    ELSE LET m == CHOOSE x \in terms : \A y \in terms : StrLeq(x, y)
         IN  <<m>> \o Sorted(terms \ {m})

\* The entry built in cases 2 and 3 (lines 348-357 and 374-383).
SyntheticEntry(term, reading, definitions) ==
    <<term, reading, "", "", 0, definitions, 0, "">>

\* Case 1 without "new_entry[5] = definitions".
MergeCase1_KeepDefinitions(entries, definitions) == entries

\* Case 1 (lines 340-343): one entry per Dict1 lemma entry of the term.
MergeCase1(entries, definitions) ==
    [i \in DOMAIN entries |-> WithDefinitions(entries[i], definitions)]

\* Lines 362-372: the reading of a Dict2-only entry.
CopiedReading(term, li, nbt, lot, copy_reading) ==
    IF ~copy_reading THEN ""
    ELSE IF term \in DOMAIN nbt THEN Field(nbt[term], 1)
    ELSE LET lemma == Get(lot, term, JNull)
         IN  IF Truthy(lemma) /\ lemma.t = "str" /\ lemma.s \in DOMAIN li
             THEN Field(li[lemma.s][1], 1)
             ELSE ""

\* The loop body without case 2: a surface term that Dict1 lists as a
\* non-lemma falls through to the Dict2-only branch.
MergeTerm_NoCase2(term, d2d, li, nbt, lot, copy_reading) ==
    LET definitions == JTexts(d2d[term])
    IN  IF term \in DOMAIN li THEN MergeCase1(li[term], definitions)
        ELSE << SyntheticEntry(term,
                               CopiedReading(term, li, nbt, lot, copy_reading),
                               definitions) >>

\* The loop body without case 3: a term Dict1 does not know is dropped.
MergeTerm_SkipDict2Only(term, d2d, li, nbt, lot, copy_reading) ==
    LET definitions == JTexts(d2d[term])
    IN  IF term \in DOMAIN li THEN MergeCase1(li[term], definitions)
        ELSE IF term \in DOMAIN nbt
        THEN << SyntheticEntry(term, "", definitions) >>
        ELSE <<>>

\* The body of the loop over sorted(dict2_lemmas) for one term
\* (lines 336-384): the entries appended.
MergeTerm(term, d2d, li, nbt, lot, copy_reading) ==
    LET definitions == JTexts(d2d[term])
    IN  IF term \in DOMAIN li THEN MergeCase1(li[term], definitions)
        ELSE IF term \in DOMAIN nbt
        THEN << SyntheticEntry(term, "", definitions) >>
        ELSE << SyntheticEntry(term,
                               CopiedReading(term, li, nbt, lot, copy_reading),
                               definitions) >>

RECURSIVE MergeLoop(_, _, _, _, _, _)
MergeLoop(terms, d2d, li, nbt, lot, copy_reading) ==
    IF terms = <<>> THEN <<>>
    ELSE MergeTerm(Head(terms), d2d, li, nbt, lot, copy_reading)
         \o MergeLoop(Tail(terms), d2d, li, nbt, lot, copy_reading)

merge_entries_from_dict2(d2l, d2d, li, nbt, lot, copy_reading) ==
    MergeLoop(Sorted(d2l), d2d, li, nbt, lot, copy_reading)

\* "lemma not in dict2_lemmas" for a key of nonlemma_index (line 396).
InDict2(lemma, d2l) == lemma.t = "str" /\ lemma.s \in d2l

\* The carry-over that drops a redirect whose surface term Dict2 defines.
RECURSIVE collect_SkipDefinedSurfaces(_, _)
collect_SkipDefinedSurfaces(ni, d2l) ==
    IF ni = <<>> THEN <<>>
    ELSE (IF InDict2(Head(ni)[1], d2l)
          THEN SelectSeq(Head(ni)[2], LAMBDA e : Field(e, 0) \notin d2l)
          ELSE <<>>)
         \o collect_SkipDefinedSurfaces(Tail(ni), d2l)

RECURSIVE collect_nonlemma_redirects(_, _)
collect_nonlemma_redirects(ni, d2l) ==
    IF ni = <<>> THEN <<>>
    ELSE (IF InDict2(Head(ni)[1], d2l) THEN Head(ni)[2] ELSE <<>>)
         \o collect_nonlemma_redirects(Tail(ni), d2l)

(***************************************************************************)
(* all_entries.sort(key=lambda e: e[0])                                    *)
(***************************************************************************)

\* The insertion of a sort that is not stable: before the entries of the
\* same term.
RECURSIVE InsertByTerm_BeforeEqual(_, _)
InsertByTerm_BeforeEqual(sorted, entry) ==
    IF sorted = <<>> THEN <<entry>>
    ELSE IF StrLeq(Field(entry, 0), Field(Head(sorted), 0))
         THEN <<entry>> \o sorted
         ELSE <<Head(sorted)>> \o InsertByTerm_BeforeEqual(Tail(sorted), entry)

\* entry put into a list sorted by term, after the entries whose term is not
\* greater: list.sort is stable.
RECURSIVE InsertByTerm(_, _)
InsertByTerm(sorted, entry) ==
    IF sorted = <<>> THEN <<entry>>
    ELSE IF StrLess(Field(entry, 0), Field(Head(sorted), 0))
         THEN <<entry>> \o sorted
         ELSE <<Head(sorted)>> \o InsertByTerm(Tail(sorted), entry)

RECURSIVE SortLoop(_, _)
SortLoop(sorted, entries) ==
    IF entries = <<>> THEN sorted
    ELSE SortLoop(InsertByTerm(sorted, Head(entries)), Tail(entries))

SortByTerm(entries) == SortLoop(<<>>, entries)

(***************************************************************************)
(* sanity_check_redirects                                                  *)
(***************************************************************************)

TermsOf(entries) == {Field(entries[i], 0) : i \in DOMAIN entries}

\* The structure test of lines 557-563: TRUE when the error is raised.
BadRedirectStructure(redirects) ==
    \/ redirects.t # "list"
    \/ redirects.l = <<>>
    \/ redirects.l[1].t # "list"
    \/ Len(redirects.l[1].l) < 1
    \/ redirects.l[1].l[1].t # "str"

\* The loop body without the membership test of lines 570-573.
SanityCheckEntry_NoMembership(entry, terms) ==
    IF Field(entry, 2) # "non-lemma" THEN ""
    ELSE IF BadRedirectStructure(Field(entry, 5))
    THEN "ValueError: Invalid non-lemma redirect structure"
    ELSE ""

\* The body of the loop for one entry (lines 552-573): the error raised.
SanityCheckEntry(entry, terms) ==
    IF Field(entry, 2) # "non-lemma" THEN ""
    ELSE IF BadRedirectStructure(Field(entry, 5))
    THEN "ValueError: Invalid non-lemma redirect structure"
    ELSE IF Field(entry, 5).l[1].l[1].s \notin terms
    THEN "ValueError: Invalid redirect"
    ELSE ""

RECURSIVE SanityLoop(_, _)
SanityLoop(entries, terms) ==
    IF entries = <<>> THEN ""
    ELSE LET e == SanityCheckEntry(Head(entries), terms)
         IN  IF e # "" THEN e ELSE SanityLoop(Tail(entries), terms)

\* The error sanity_check_redirects raises, "" when it returns.
sanity_check_redirects(entries) == SanityLoop(entries, TermsOf(entries))

(***************************************************************************)
(* chunk_entries                                                           *)
(***************************************************************************)

\* entries[i:i + chunk_size] for i in range(0, len(entries), chunk_size)
RECURSIVE Chunks(_, _)
Chunks(entries, chunk_size) ==
    IF entries = <<>> THEN <<>>
    ELSE IF Len(entries) <= chunk_size THEN <<entries>>
    ELSE <<SubSeq(entries, 1, chunk_size)>>
         \o Chunks(Drop(entries, chunk_size), chunk_size)


(***************************************************************************)
(* Inputs                                                                  *)
(***************************************************************************)

MaxDict1 == 2
MaxDict2 == 2
MaxItems == 1
MaxTextLen == 3
DefaultChunkSize == 10000

SeqsUpTo(S, n) == UNION {[1..k -> S] : k \in 0..n}

TermA == <<"a">>
TermB == <<"b">>
\* The terms of the entries of Dict1 and Dict2, and those of any entry.
DictTerms == {TermA, TermB}
Terms == {<<>>} \cup DictTerms

\* A Dict1 lemma entry; v tells two entries of one term apart.
LemmaEntry(term, v) ==
    IF v = 1
    THEN <<term, "r1", "n", "v1", 1, JTexts(<< <<"o">> >>), 1, "t1">>
    ELSE <<term, "r2", "v", "v5", 2, JTexts(<< <<"o">> >>), 2, "t2">>

\* A Dict1 non-lemma entry with the given field 5.
NonLemmaEntry(term, payload) ==
    <<term, "rn", "non-lemma", "v1", 0, payload, 0, "">>

\* [[target, []]]
RedirectPayload(target) == JList(<< JList(<< JStr(target), JList(<<>>) >>) >>)

\* Field 5 of a non-lemma entry that is no [[str, ...]]: a string, [], [[]]
\* and [[[]]].
StringPayload == JStr(<<"a", "x">>)
MalformedPayloads ==
    { StringPayload, JList(<<>>), JList(<< JList(<<>>) >>),
      JList(<< JList(<< JList(<<>>) >>) >>) }

\* An entry that is not a list of 8 items.
ShortEntry == <<TermA, "", "", "", 0, JList(<<>>), 0>>

Dict1Entries ==
    {LemmaEntry(TermA, 1), LemmaEntry(TermA, 2), LemmaEntry(TermB, 1)}
    \cup {NonLemmaEntry(s, RedirectPayload(t)) : s \in DictTerms, t \in DictTerms}
    \cup {NonLemmaEntry(TermB, p) : p \in MalformedPayloads}
    \cup {ShortEntry}

Dict2Entry(term, raw) == <<term, "", "", "", 0, JTexts(raw), 0, "">>

RawX == << <<"a", ":", " ", "x">> >>
RawY == << <<"y">> >>

Dict2Entries ==
    {Dict2Entry(t, RawX) : t \in DictTerms} \cup {Dict2Entry(TermA, RawY)}
    \cup {ShortEntry}

Dict1Inputs == SeqsUpTo(Dict1Entries, MaxDict1)
Dict2Inputs == SeqsUpTo(Dict2Entries, MaxDict2)

DefaultArgs ==
    [chunk_size |-> DefaultChunkSize, copy_reading |-> FALSE,
     no_zip |-> FALSE, no_normalize |-> FALSE]

\* The command lines: the defaults, the two other chunk sizes, and the
\* three flags set.
ArgsInputs ==
    {[DefaultArgs EXCEPT !.chunk_size = c] : c \in {0, 1, DefaultChunkSize}}
    \cup {[chunk_size |-> DefaultChunkSize, copy_reading |-> TRUE,
           no_zip |-> TRUE, no_normalize |-> TRUE]}

\* Files of the output directory: <<kind, number>>.
TermBank(i) == <<"term_bank", i>>
TagBank(i) == <<"tag_bank", i>>
IndexJson == <<"index.json", 0>>

\* What an earlier run left in the output directory.
OutdirInputs == {{}, {TermBank(1), TermBank(2), IndexJson}}

(***************************************************************************)
(* main                                                                    *)
(***************************************************************************)

Init ==
    /\ pc = "parse_args"
    /\ outdir \in OutdirInputs
    /\ zipped = FALSE
    /\ args = DefaultArgs
    /\ dict1 = <<>>
    /\ dict2 = <<>>
    /\ lemma_index = EmptyDict
    /\ nonlemma_index = <<>>
    /\ nonlemma_by_term = EmptyDict
    /\ lemma_of_term = EmptyDict
    /\ dict2_lemmas = {}
    /\ dict2_definitions = EmptyDict
    /\ merged_entries = <<>>
    /\ nonlemma_redirects = <<>>
    /\ all_entries = <<>>
    /\ chunks = <<>>
    /\ error = ""
    /\ trace = <<>>
    /\ npc = "idle"
    /\ nidx = 0
    /\ nraw = <<>>
    /\ nterm = <<>>
    /\ normalized = <<>>

\* The step `step` has run and `next` runs next.
Goto(step, next) ==
    /\ pc' = next
    /\ trace' = Append(trace, step)

\* The step `step` ended the run with the error e.
Fail(step, e) ==
    /\ pc' = "failed"
    /\ error' = e
    /\ trace' = Append(trace, step)

\* parse_args (lines 88-153): the command line, and the checks of the three
\* paths.
ParseArgs ==
    /\ pc = "parse_args"
    /\ \E a \in ArgsInputs, paths \in {"ok", "dict1", "dict2", "output"} :
          IF paths = "ok"
          THEN /\ args' = a
               /\ Goto("parse_args", "cleanup")
               /\ UNCHANGED error
          ELSE /\ Fail("parse_args", "Error: path is not a valid directory")
               /\ UNCHANGED args
    /\ UNCHANGED <<outdir, zipped, dict1, dict2, lemma_index, nonlemma_index,
                   nonlemma_by_term, lemma_of_term, dict2_lemmas,
                   dict2_definitions, merged_entries, nonlemma_redirects,
                   all_entries, chunks, normVars>>

\* A cleanup that leaves the files of an earlier run.
cleanup_KeepFiles(files) == files

\* cleanup_output_dir (lines 576-587)
cleanup_output_dir(files) == {}

CleanupOutputDir ==
    /\ pc = "cleanup"
    /\ outdir' = cleanup_output_dir(outdir)
    /\ Goto("cleanup_output_dir", "scan")
    /\ UNCHANGED <<zipped, args, dict1, dict2, lemma_index, nonlemma_index,
                   nonlemma_by_term, lemma_of_term, dict2_lemmas,
                   dict2_definitions, merged_entries, nonlemma_redirects,
                   all_entries, chunks, error, normVars>>

\* scan_dictionary on both inputs (lines 596-600)
ScanDictionaries ==
    /\ pc = "scan"
    /\ \E found \in BOOLEAN :
          IF found
          THEN Goto("scan_dictionary", "index_dict1") /\ UNCHANGED error
          ELSE Fail("scan_dictionary", "Error: FileNotFoundError")
    /\ UNCHANGED <<outdir, zipped, args, dict1, dict2, lemma_index,
                   nonlemma_index, nonlemma_by_term, lemma_of_term,
                   dict2_lemmas, dict2_definitions, merged_entries,
                   nonlemma_redirects, all_entries, chunks, normVars>>

\* Phase 1 (lines 605-610)
IndexDict1 ==
    /\ pc = "index_dict1"
    /\ \E d1 \in Dict1Inputs :
          LET ix == index_dict1(d1)
          IN  /\ dict1' = d1
              /\ IF ix.error = ""
                 THEN /\ lemma_index' = ix.lemma_index
                      /\ nonlemma_index' = ix.nonlemma_index
                      /\ nonlemma_by_term' = ix.nonlemma_by_term
                      /\ lemma_of_term' = ix.lemma_of_term
                      /\ Goto("index_dict1", "index_dict2")
                      /\ UNCHANGED error
                 ELSE /\ Fail("index_dict1", ix.error)
                      /\ UNCHANGED <<lemma_index, nonlemma_index,
                                     nonlemma_by_term, lemma_of_term>>
    /\ UNCHANGED <<outdir, zipped, args, dict2, dict2_lemmas,
                   dict2_definitions, merged_entries, nonlemma_redirects,
                   all_entries, chunks, normVars>>

\* Phase 2 (lines 616-619)
IndexDict2 ==
    /\ pc = "index_dict2"
    /\ \E d2 \in Dict2Inputs :
          LET ix == index_dict2(d2, ~args.no_normalize)
          IN  /\ dict2' = d2
              /\ IF ix.error = ""
                 THEN /\ dict2_lemmas' = ix.dict2_lemmas
                      /\ dict2_definitions' = ix.dict2_definitions
                      /\ Goto("index_dict2", "merge")
                      /\ UNCHANGED error
                 ELSE /\ Fail("index_dict2", ix.error)
                      /\ UNCHANGED <<dict2_lemmas, dict2_definitions>>
    /\ UNCHANGED <<outdir, zipped, args, dict1, lemma_index, nonlemma_index,
                   nonlemma_by_term, lemma_of_term, merged_entries,
                   nonlemma_redirects, all_entries, chunks, normVars>>

\* Lines 623-630
MergeEntries ==
    /\ pc = "merge"
    /\ merged_entries' =
          merge_entries_from_dict2(dict2_lemmas, dict2_definitions,
                                   lemma_index, nonlemma_by_term,
                                   lemma_of_term, args.copy_reading)
    /\ Goto("merge_entries_from_dict2", "collect")
    /\ UNCHANGED <<outdir, zipped, args, dict1, dict2, lemma_index,
                   nonlemma_index, nonlemma_by_term, lemma_of_term,
                   dict2_lemmas, dict2_definitions, nonlemma_redirects,
                   all_entries, chunks, error, normVars>>

\* Lines 632-635
CollectRedirects ==
    /\ pc = "collect"
    /\ nonlemma_redirects' =
          collect_nonlemma_redirects(nonlemma_index, dict2_lemmas)
    /\ Goto("collect_nonlemma_redirects", "sort")
    /\ UNCHANGED <<outdir, zipped, args, dict1, dict2, lemma_index,
                   nonlemma_index, nonlemma_by_term, lemma_of_term,
                   dict2_lemmas, dict2_definitions, merged_entries,
                   all_entries, chunks, error, normVars>>

\* Lines 637-638
FinalList(merged, redirects) == SortByTerm(merged \o redirects)

SortEntries ==
    /\ pc = "sort"
    /\ all_entries' = FinalList(merged_entries, nonlemma_redirects)
    /\ Goto("sort", "sanity")
    /\ UNCHANGED <<outdir, zipped, args, dict1, dict2, lemma_index,
                   nonlemma_index, nonlemma_by_term, lemma_of_term,
                   dict2_lemmas, dict2_definitions, merged_entries,
                   nonlemma_redirects, chunks, error, normVars>>

\* Line 640
SanityCheck ==
    /\ pc = "sanity"
    /\ LET e == sanity_check_redirects(all_entries)
       IN  IF e = ""
           THEN Goto("sanity_check_redirects", "chunk") /\ UNCHANGED error
           ELSE Fail("sanity_check_redirects", e)
    /\ UNCHANGED <<outdir, zipped, args, dict1, dict2, lemma_index,
                   nonlemma_index, nonlemma_by_term, lemma_of_term,
                   dict2_lemmas, dict2_definitions, merged_entries,
                   nonlemma_redirects, all_entries, chunks, normVars>>

\* Lines 642-647: list(chunk_entries(...)) runs the generator, whose first
\* statement is the test of chunk_size (lines 416-417).
ChunkEntries ==
    /\ pc = "chunk"
    /\ IF args.chunk_size <= 0
       THEN /\ Fail("chunk_entries",
                    "ValueError: chunk_size must be a positive integer")
            /\ UNCHANGED chunks
       ELSE /\ chunks' = Chunks(all_entries, args.chunk_size)
            /\ Goto("chunk_entries", "write")
            /\ UNCHANGED error
    /\ UNCHANGED <<outdir, zipped, args, dict1, dict2, lemma_index,
                   nonlemma_index, nonlemma_by_term, lemma_of_term,
                   dict2_lemmas, dict2_definitions, merged_entries,
                   nonlemma_redirects, all_entries, normVars>>

\* write_term_banks (line 652)
WriteTermBanks ==
    /\ pc = "write"
    /\ outdir' = outdir \cup {TermBank(i) : i \in DOMAIN chunks}
    /\ Goto("write_term_banks", "tags")
    /\ UNCHANGED <<zipped, args, dict1, dict2, lemma_index, nonlemma_index,
                   nonlemma_by_term, lemma_of_term, dict2_lemmas,
                   dict2_definitions, merged_entries, nonlemma_redirects,
                   all_entries, chunks, error, normVars>>

\* copy_tag_banks (line 657): Dict1 holds one tag bank.
CopyTagBanks ==
    /\ pc = "tags"
    /\ outdir' = outdir \cup {TagBank(1)}
    /\ Goto("copy_tag_banks", "index_json")
    /\ UNCHANGED <<zipped, args, dict1, dict2, lemma_index, nonlemma_index,
                   nonlemma_by_term, lemma_of_term, dict2_lemmas,
                   dict2_definitions, merged_entries, nonlemma_redirects,
                   all_entries, chunks, error, normVars>>

\* build_index_json (lines 659-664)
BuildIndexJson ==
    /\ pc = "index_json"
    /\ outdir' = outdir \cup {IndexJson}
    /\ Goto("build_index_json", "validate")
    /\ UNCHANGED <<zipped, args, dict1, dict2, lemma_index, nonlemma_index,
                   nonlemma_by_term, lemma_of_term, dict2_lemmas,
                   dict2_definitions, merged_entries, nonlemma_redirects,
                   all_entries, chunks, error, normVars>>

\* validate_output_directory (line 669)
ValidateOutput ==
    /\ pc = "validate"
    /\ IF IndexJson \notin outdir
       THEN Fail("validate_output_directory",
                 "PreImportValidationError: Missing index.json")
       ELSE IF ~\E f \in outdir : f[1] = "term_bank"
       THEN Fail("validate_output_directory",
                 "PreImportValidationError: No term_bank files")
       ELSE Goto("validate_output_directory", "zip") /\ UNCHANGED error
    /\ UNCHANGED <<outdir, zipped, args, dict1, dict2, lemma_index,
                   nonlemma_index, nonlemma_by_term, lemma_of_term,
                   dict2_lemmas, dict2_definitions, merged_entries,
                   nonlemma_redirects, all_entries, chunks, normVars>>

\* Lines 674-676
ZipOutput ==
    /\ pc = "zip"
    /\ zipped' = ~args.no_zip
    /\ Goto("zip_output_directory", "done")
    /\ UNCHANGED <<outdir, args, dict1, dict2, lemma_index, nonlemma_index,
                   nonlemma_by_term, lemma_of_term, dict2_lemmas,
                   dict2_definitions, merged_entries, nonlemma_redirects,
                   all_entries, chunks, error, normVars>>

Next ==
    \/ ParseArgs
    \/ CleanupOutputDir
    \/ ScanDictionaries
    \/ IndexDict1
    \/ IndexDict2
    \/ MergeEntries
    \/ CollectRedirects
    \/ SortEntries
    \/ SanityCheck
    \/ ChunkEntries
    \/ WriteTermBanks
    \/ CopyTagBanks
    \/ BuildIndexJson
    \/ ValidateOutput
    \/ ZipOutput

Spec == Init /\ [][Next]_vars


(***************************************************************************)
(* sanity_check_redirects on entry lists of any origin                     *)
(***************************************************************************)

MaxList == 2

\* [[None]]
NullRedirectPayload == JList(<< JList(<< JNull >>) >>)

SanityEntries ==
    {SyntheticEntry(t, "", JTexts(RawY)) : t \in Terms}
    \cup {LemmaEntry(TermA, 1), WithDefinitions(LemmaEntry(TermB, 2), JNull)}
    \cup {NonLemmaEntry(s, p) :
            s \in {TermA, TermB},
            p \in {RedirectPayload(t) : t \in Terms}
                  \cup MalformedPayloads \cup {NullRedirectPayload}}

SanityInputs == SeqsUpTo(SanityEntries, MaxList)

InitSanity ==
    /\ pc = "sanity"
    /\ all_entries \in SanityInputs
    /\ outdir = {}
    /\ zipped = FALSE
    /\ args = DefaultArgs
    /\ dict1 = <<>>
    /\ dict2 = <<>>
    /\ lemma_index = EmptyDict
    /\ nonlemma_index = <<>>
    /\ nonlemma_by_term = EmptyDict
    /\ lemma_of_term = EmptyDict
    /\ dict2_lemmas = {}
    /\ dict2_definitions = EmptyDict
    /\ merged_entries = <<>>
    /\ nonlemma_redirects = <<>>
    /\ chunks = <<>>
    /\ error = ""
    /\ trace = <<>>
    /\ npc = "idle"
    /\ nidx = 0
    /\ nraw = <<>>
    /\ nterm = <<>>
    /\ normalized = <<>>

SpecSanity == InitSanity /\ [][SanityCheck]_vars

(***************************************************************************)
(* normalize_definitions, one item of raw_definitions at a time            *)
(***************************************************************************)

ExampleLead ==
    << "l", "e", "a", "d", " ", "n", ".", " ", "t", "o", " ", "g", "u", "i",
       "d", "e", ";", " ", "t", "o", " ", "d", "i", "r", "e", "c", "t" >>
TermLead == <<"l", "e", "a", "d">>

ExampleRun ==
    << "r", "u", "n", ",", " ", "(", "f", "a", "s", "t", ")", " ", "{", "s",
       "p", "o", "r", "t", "s", "}", " ", "t", "o", " ", "c", "o", "m", "p",
       "e", "t", "e" >>
TermRun == <<"r", "u", "n">>

NormChars == {"a", " ", "{", "}"}
NormItems == SeqsUpTo(NormChars, MaxTextLen)

\* <<raw_definitions, term>>: lists of short items with a short term, and
\* the two examples with their terms.
NormInputs ==
    (SeqsUpTo(NormItems, MaxItems) \X {<<>>, TermA})
    \cup {<< <<ExampleLead>>, TermLead >>, << <<ExampleRun>>, TermRun >>}

InitNorm ==
    /\ npc = "start"
    /\ nidx = 0
    /\ \E input \in NormInputs : nraw = input[1] /\ nterm = input[2]
    /\ normalized = <<>>
    /\ pc = "idle"
    /\ outdir = {}
    /\ zipped = FALSE
    /\ args = DefaultArgs
    /\ dict1 = <<>>
    /\ dict2 = <<>>
    /\ lemma_index = EmptyDict
    /\ nonlemma_index = <<>>
    /\ nonlemma_by_term = EmptyDict
    /\ lemma_of_term = EmptyDict
    /\ dict2_lemmas = {}
    /\ dict2_definitions = EmptyDict
    /\ merged_entries = <<>>
    /\ nonlemma_redirects = <<>>
    /\ all_entries = <<>>
    /\ chunks = <<>>
    /\ error = ""
    /\ trace = <<>>

\* Lines 40-43
NormStart ==
    /\ npc = "start"
    /\ npc' = IF nraw = <<>> THEN "done" ELSE "loop"
    /\ UNCHANGED <<nidx, nraw, nterm, normalized, mainVars>>

\* Lines 45-83: one iteration of the loop over raw_definitions.
NormLoop ==
    /\ npc = "loop"
    /\ nidx < Len(nraw)
    /\ nidx' = nidx + 1
    /\ normalized' = normalized \o NormalizeItem(nraw[nidx + 1], nterm)
    /\ UNCHANGED <<npc, nraw, nterm, mainVars>>

\* Line 85
NormReturn ==
    /\ npc = "loop"
    /\ nidx = Len(nraw)
    /\ npc' = "done"
    /\ UNCHANGED <<nidx, nraw, nterm, normalized, mainVars>>

NextNorm == NormStart \/ NormLoop \/ NormReturn

SpecNorm == InitNorm /\ [][NextNorm]_vars


(***************************************************************************)
(* Properties                                                              *)
(***************************************************************************)

Last(seq) == seq[Len(seq)]

\* The step has run.
Ran(step) == \E i \in DOMAIN trace : trace[i] = step

\* The step was the last to run and raised.
FailedIn(step) == pc = "failed" /\ trace # <<>> /\ Last(trace) = step

\* all_entries holds the final list (both indexings completed).
FinalListBuilt == Ran("sort")

EntriesOfTerm(entries, term) ==
    SelectSeq(entries, LAMBDA e : Field(e, 0) = term)

DirectEntriesOfTerm(entries, term) ==
    SelectSeq(entries, LAMBDA e : Field(e, 0) = term /\ ~is_non_lemma(e))

Count(entries, entry) == Cardinality({i \in DOMAIN entries : entries[i] = entry})

Dict2Terms == {Field(dict2[i], 0) : i \in DOMAIN dict2}
Dict1Terms == {Field(dict1[i], 0) : i \in DOMAIN dict1}
Dict1Lemmas(term) ==
    SelectSeq(dict1, LAMBDA e : Field(e, 0) = term /\ ~is_non_lemma(e))

\* Dict2's definition list for a term, as field 5 of an output entry.
Dict2DefinitionList(term) == JTexts(dict2_definitions[term])

\* Field 5 is a non-empty list whose first element is a list whose first
\* element is a string.
IsRedirectPayload(p) ==
    /\ p.t = "list"
    /\ Len(p.l) >= 1
    /\ p.l[1].t = "list"
    /\ Len(p.l[1].l) >= 1
    /\ p.l[1].l[1].t = "str"

PayloadTarget(p) == p.l[1].l[1].s

\* C1: whenever both indexings complete, the final list (merged entries
\* followed by the carried-over redirects, sorted by term) passes
\* sanity_check_redirects.
C1_Closure == FinalListBuilt => ~FailedIn("sanity_check_redirects")

\* C2, as stated: a term with N >= 1 lemma entries in Dict1 that is a term
\* of Dict2 has exactly N entries in the final list, the Dict1 lemma
\* entries in encounter order with field 5 replaced by Dict2's definitions.
C2_ExactlyN ==
    FinalListBuilt =>
        \A t \in Dict2Terms :
            Dict1Lemmas(t) # <<>> =>
                EntriesOfTerm(all_entries, t)
                    = [i \in DOMAIN Dict1Lemmas(t) |->
                         WithDefinitions(Dict1Lemmas(t)[i], Dict2DefinitionList(t))]

\* C2, amended: the entries of the final list with that term whose kind is
\* not "non-lemma" are exactly those N entries; every other entry of the
\* term is a carried-over Dict1 redirect entry.
C2_ExactlyNDirect ==
    FinalListBuilt =>
        \A t \in Dict2Terms :
            Dict1Lemmas(t) # <<>> =>
                /\ DirectEntriesOfTerm(all_entries, t)
                     = [i \in DOMAIN Dict1Lemmas(t) |->
                          WithDefinitions(Dict1Lemmas(t)[i], Dict2DefinitionList(t))]
                /\ \A i \in DOMAIN all_entries :
                      (Field(all_entries[i], 0) = t /\ is_non_lemma(all_entries[i]))
                          => Count(dict1, all_entries[i]) >= 1

C2_Witness ==
    /\ FinalListBuilt
    /\ \E t \in Dict2Terms : Len(Dict1Lemmas(t)) = 2

\* C3: a term of Dict2 that no Dict1 entry has as its term has exactly one
\* entry in the final list, and its kind is not "non-lemma".
C3_Dict2OnlyOnce ==
    FinalListBuilt =>
        \A t \in Dict2Terms \ Dict1Terms :
            /\ Len(EntriesOfTerm(all_entries, t)) = 1
            /\ ~is_non_lemma(EntriesOfTerm(all_entries, t)[1])

C3_Witness ==
    /\ FinalListBuilt
    /\ \E t \in Dict2Terms \ Dict1Terms :
          Cardinality({i \in DOMAIN dict2 : Field(dict2[i], 0) = t}) = 2

\* The Dict1 non-lemma entries whose redirect target (entry[5][0][0]) is a
\* term of Dict2.
CarriedOver(entry) ==
    /\ is_non_lemma(entry)
    /\ RedirectOf(entry).ok
    /\ InDict2(RedirectOf(entry).v, Dict2Terms)

\* C4, as stated: each such entry is in the final list as often as in
\* Dict1, and when its surface term is a term of Dict2 the final list also
\* holds the synthetic direct entry of that term.
C4_CarryOver ==
    FinalListBuilt =>
        \A i \in DOMAIN dict1 :
            CarriedOver(dict1[i]) =>
                /\ Count(all_entries, dict1[i]) = Count(dict1, dict1[i])
                /\ Field(dict1[i], 0) \in Dict2Terms =>
                      Count(all_entries,
                            SyntheticEntry(Field(dict1[i], 0), "",
                                           Dict2DefinitionList(Field(dict1[i], 0)))) = 1

\* C4, amended: the synthetic direct entry is there when the surface term
\* is a term of Dict2 and not a lemma term of Dict1; when it is a lemma term
\* of Dict1 too, the direct entries of the term are the copies of Dict1's
\* lemma entries.
C4_CarryOverUnlessLemma ==
    FinalListBuilt =>
        \A i \in DOMAIN dict1 :
            CarriedOver(dict1[i]) =>
                LET s == Field(dict1[i], 0)
                IN  /\ Count(all_entries, dict1[i]) = Count(dict1, dict1[i])
                    /\ (s \in Dict2Terms /\ Dict1Lemmas(s) = <<>>) =>
                          DirectEntriesOfTerm(all_entries, s)
                            = << SyntheticEntry(s, "", Dict2DefinitionList(s)) >>
                    /\ (s \in Dict2Terms /\ Dict1Lemmas(s) # <<>>) =>
                          DirectEntriesOfTerm(all_entries, s)
                            = [k \in DOMAIN Dict1Lemmas(s) |->
                                 WithDefinitions(Dict1Lemmas(s)[k],
                                                 Dict2DefinitionList(s))]

C4_Witness ==
    /\ FinalListBuilt
    /\ \E i, j \in DOMAIN dict1 :
          /\ i # j
          /\ CarriedOver(dict1[i])
          /\ CarriedOver(dict1[j])
          /\ Field(dict1[i], 0) = Field(dict1[j], 0)
          /\ Field(dict1[i], 0) \in Dict2Terms

\* The integrity check has returned or raised.
SanityDone == Ran("sanity_check_redirects")

\* C5, as stated: the check fails exactly when some "non-lemma" entry has a
\* field 5 that is no non-empty list whose first element is a list with a
\* non-empty leading string, or a target that is no term of the list.
C5_FailsExactlyWhen ==
    SanityDone =>
        (FailedIn("sanity_check_redirects") <=>
            \E i \in DOMAIN all_entries :
                /\ is_non_lemma(all_entries[i])
                /\ \/ ~IsRedirectPayload(Field(all_entries[i], 5))
                   \/ PayloadTarget(Field(all_entries[i], 5)) = <<>>
                   \/ PayloadTarget(Field(all_entries[i], 5))
                        \notin TermsOf(all_entries))

\* C5, amended: the leading string may be empty.
C5_FailsExactlyWhenLeadingString ==
    SanityDone =>
        (FailedIn("sanity_check_redirects") <=>
            \E i \in DOMAIN all_entries :
                /\ is_non_lemma(all_entries[i])
                /\ \/ ~IsRedirectPayload(Field(all_entries[i], 5))
                   \/ PayloadTarget(Field(all_entries[i], 5))
                        \notin TermsOf(all_entries))

C5_Witness ==
    /\ SanityDone
    /\ pc = "chunk"
    /\ \E i, j \in DOMAIN all_entries :
          /\ is_non_lemma(all_entries[i])
          /\ ~is_non_lemma(all_entries[j])
          /\ Field(all_entries[j], 5).t # "list"

\* C6: index_dict1 fails exactly when some non-lemma entry has a field 5
\* that is no non-empty list whose first element is a list whose first
\* element is a string (the entries being lists of 8 items).
C6_IndexRejectsMalformed ==
    (trace # <<>> /\ Last(trace) = "index_dict1"
        /\ \A i \in DOMAIN dict1 : ValidShape(dict1[i])) =>
        (pc = "failed" <=>
            \E i \in DOMAIN dict1 :
                /\ is_non_lemma(dict1[i])
                /\ ~IsRedirectPayload(Field(dict1[i], 5)))

\* The steps that process the dictionaries or touch the output directory.
ProcessingSteps ==
    {"cleanup_output_dir", "scan_dictionary", "index_dict1", "index_dict2",
     "merge_entries_from_dict2", "collect_nonlemma_redirects", "sort",
     "sanity_check_redirects"}

\* C7: in a run with a non-positive chunk size no processing step runs: the
\* chunk-size error comes first.
C7_ConfigErrorFirst ==
    (Ran("parse_args") /\ args.chunk_size <= 0) =>
        \A i \in DOMAIN trace : trace[i] \notin ProcessingSteps

\* C8: the final list holds, term by term in ascending order, the merged
\* entries of the term followed by the carried-over redirects of the term,
\* each in their order before the sort.
C8_StableSort ==
    FinalListBuilt =>
        /\ \A i \in 1..(Len(all_entries) - 1) :
              StrLeq(Field(all_entries[i], 0), Field(all_entries[i + 1], 0))
        /\ Len(all_entries) = Len(merged_entries) + Len(nonlemma_redirects)
        /\ \A t \in Terms :
              EntriesOfTerm(all_entries, t)
                = EntriesOfTerm(merged_entries, t)
                  \o EntriesOfTerm(nonlemma_redirects, t)

C8_Witness ==
    /\ FinalListBuilt
    /\ all_entries # merged_entries \o nonlemma_redirects
    /\ \E t \in Terms :
          /\ EntriesOfTerm(merged_entries, t) # <<>>
          /\ EntriesOfTerm(nonlemma_redirects, t) # <<>>

ToGuide == <<"t", "o", " ", "g", "u", "i", "d", "e">>
ToDirect == <<"t", "o", " ", "d", "i", "r", "e", "c", "t">>

\* C9: normalizing ["lead n. to guide; to direct"] with term "lead" returns
\* ["to guide", "to direct"].
C9_GenericExample ==
    (npc = "done" /\ nraw = <<ExampleLead>> /\ nterm = TermLead) =>
        normalized = <<ToGuide, ToDirect>>

\* The integrity check has returned without raising.
SanityPassed == SanityDone /\ ~FailedIn("sanity_check_redirects")

\* C10: until sanity_check_redirects has returned, the run has written no
\* file and no archive, and once cleanup_output_dir has run the output
\* directory is empty: a run that fails in an indexing, in the merge or in
\* the integrity check leaves no term bank.
C10_NoOutputBeforeCheck ==
    ~SanityPassed =>
        /\ ~zipped
        /\ outdir \in OutdirInputs
        /\ Ran("cleanup_output_dir") => outdir = {}

C10_Witness ==
    /\ FailedIn("sanity_check_redirects")
    /\ Ran("cleanup_output_dir")
    /\ outdir = {}
    /\ ~zipped


\* ---- C11 ----
SubstringAt(s, sub, i) ==
    /\ i + Len(sub) - 1 <= Len(s)
    /\ \A k \in 1..Len(sub) : s[i + k - 1] = sub[k]

Contains(s, sub) == \E i \in 1..(Len(s) + 1) : SubstringAt(s, sub, i)

Fast == << "(", "f", "a", "s", "t", ")" >>

Sports == << "{", "s", "p", "o", "r", "t", "s", "}" >>

\* C11: block-splitting ["run, (fast) {sports} to compete"] with term "run"
\* returns two elements, the first containing "(fast)" and the second starting
\* with "{sports}": a bracket block preceded by whitespace starts a new element.
C11_BlockStartsElement ==
    (npc = "done" /\ nraw = <<ExampleRun>> /\ nterm = TermRun) =>
        /\ Len(normalized) = 2
        /\ Contains(normalized[1], Fast)
        /\ StartsWith(normalized[2], Sports)

\* ---- C12 ----
Dict2OnlyTerms ==
    { t \in dict2_lemmas : t \notin DOMAIN lemma_index /\ t \notin DOMAIN nonlemma_by_term }

\* C12: the copy-reading option has no observable effect: the merge returns the
\* same list with the option on and off, because a term that reaches the
\* Dict2-only branch is absent from lemma_of_term, so every synthetic entry has
\* an empty reading.
C12_CopyReadingNoEffect ==
    Ran("merge_entries_from_dict2") =>
        /\ merged_entries =
               merge_entries_from_dict2(dict2_lemmas, dict2_definitions,
                                        lemma_index, nonlemma_by_term,
                                        lemma_of_term, ~args.copy_reading)
        /\ \A t \in Dict2OnlyTerms : t \notin DOMAIN lemma_of_term
        /\ \A i \in DOMAIN merged_entries :
               Field(merged_entries[i], 0) \notin DOMAIN lemma_index =>
                   Field(merged_entries[i], 1) = ""

C12_Witness ==
    /\ Ran("merge_entries_from_dict2")
    /\ args.copy_reading
    /\ Dict2OnlyTerms # {}
    /\ DOMAIN lemma_of_term # {}
    /\ \E i \in DOMAIN merged_entries :
           Field(merged_entries[i], 0) \in Dict2OnlyTerms

=============================================================================
